---- MODULE Spec2Model ----
(***************************************************************************)
(* Model of the DMA-driven I2C master of src/src/i2c/dma.rs                *)
(* (I2CMasterDma): the driver struct, the I2C peripheral bits it touches,  *)
(* the flags of the two DMA streams, and one action per public operation   *)
(* or interrupt handler.  A call or handler is one atomic action; what the *)
(* bus does while it polls a status flag is an input of the action.        *)
(*                                                                         *)
(* The hardware around the driver:                                         *)
(*   - BUSY rises when a START condition goes out and falls when the       *)
(*     requested STOP condition goes out (action StopCondition); the       *)
(*     driver is the only master of the bus.                               *)
(*   - SR1 holds the error flags AF (a NACK) and BERR (a bus error) until  *)
(*     check_and_clear_error_flags clears them.                            *)
(*   - A DMA stream raises FE, TE, TC only between start() and release(),  *)
(*     and release() clears them.                                          *)
(*   - BTF is not set after a NACK, so a poll for BTF then never ends; a   *)
(*     panic (unwrap() of None, failed assert!) or such a poll stops the   *)
(*     program (obs.halt).                                                 *)
(*   - The blocking driver behind read, write_read and write runs a whole  *)
(*     transaction: on success it has sent STOP and the bus is free; on an *)
(*     error it returns at once and leaves the bus held.                   *)
(***************************************************************************)
EXTENDS Integers, Sequences, FiniteSets, TLC

\* ---------------------------------------------------------------- bounds
\* slave addresses 0..MaxAddr (the address only travels through the struct
\* and DR), receive buffers of 0..MaxLen bytes; the bytes of a buffer play
\* no part in the control flow
MaxAddr == 0
MaxLen == 2

Addrs == 0..MaxAddr
Lens == 0..MaxLen

VARIABLES
    drv,    \* the I2CMasterDma struct (dma.rs:129-151)
    i2c,    \* the bits of CR1, CR2, SR1, SR2 the driver reads or writes
    dma,    \* the interrupt flags of the Tx and the Rx DMA stream
    obs     \* observations: what the last call did, the history of the
            \* current transaction (log, and fifo: a FIFO error was
            \* handled), whether the program panicked or hangs

vars == <<drv, i2c, dma, obs>>

\* ---------------------------------------------------------------- values
\* super::Error values the driver can see
NackUnknown == "NoAcknowledge(Unknown)"
NackAddress == "NoAcknowledge(Address)"
NackData == "NoAcknowledge(Data)"
BusFault == "Bus"

\* `Err(Error::I2CError(super::Error::NoAcknowledge(_)))` of dma.rs:359
IsNoAcknowledge(e) == e \in {NackUnknown, NackAddress, NackData}

\* Result<(), Error> handed to the callback (dma.rs:13-19)
CbOk == [tag |-> "Ok", err |-> "none"]
I2CError(e) == [tag |-> "I2CError", err |-> e]
TransferError == [tag |-> "TransferError", err |-> "none"]

\* nb::Result<(), super::Error> returned by the public calls
NbOk == [tag |-> "Ok", err |-> "none"]
WouldBlock == [tag |-> "WouldBlock", err |-> "none"]
Other(e) == [tag |-> "Other", err |-> e]
Unit == [tag |-> "unit", err |-> "none"]

\* what the bus can do while the driver polls a status flag
BusEvents == {"none", "AF", "BERR"}
StartEvents == {"none", "BERR"}
Callbacks == {"None", "Some"}

\* the machine state the operators below transform; `res` is the value the
\* last primitive returned
M == [drv |-> drv, i2c |-> i2c, dma |-> dma, obs |-> obs, res |-> "Ok"]

Halted(m) == m.obs.halt # "no"

Log(m, ev) == [m EXCEPT !.obs.log = Append(@, ev)]

\* ---------------------------------------------------------------- use_dma
use_dma ==
    [ callback |-> "None", address |-> 0, rx_len |-> 0,
      tx |-> TRUE, tx_stream |-> TRUE, tx_transfer |-> "None",
      rx |-> TRUE, rx_stream |-> TRUE, rx_transfer |-> "None" ]

InitI2c ==
    [ start |-> FALSE, stop |-> FALSE, ack |-> FALSE,
      dmaen |-> FALSE, iterren |-> FALSE, busy |-> FALSE, sr1 |-> {} ]

InitDma == [ tx |-> {}, rx |-> {} ]

NoResult == [tag |-> "none", err |-> "none"]

InitObs ==
    [ op |-> "init", ret |-> NoResult, path |-> "none",
      kind |-> "none", len |-> 0, cbSupplied |-> FALSE,
      cbCount |-> 0, cbResult |-> NoResult, cbIn |-> "none",
      cbTx |-> "None", cbRx |-> "None",
      finRes |-> NoResult, finStop |-> FALSE, fifo |-> FALSE,
      log |-> << >>, halt |-> "no" ]

Init ==
    /\ drv = use_dma
    /\ i2c = InitI2c
    /\ dma = InitDma
    /\ obs = InitObs

Commit(m) ==
    /\ drv' = m.drv
    /\ i2c' = m.i2c
    /\ dma' = m.dma
    /\ obs' = m.obs

\* entry of a public call or handler: remember which one runs
Enter(m, name) ==
    [m EXCEPT !.obs.op = name, !.obs.ret = Unit, !.obs.path = "none"]

Return(m, r) == [m EXCEPT !.obs.ret = r]

\* a transaction was accepted: start a fresh history for it
NewTransaction(m, kind, buf_len, cb) ==
    [m EXCEPT !.obs.kind = kind, !.obs.len = buf_len,
              !.obs.cbSupplied = (cb = "Some"),
              !.obs.cbCount = 0, !.obs.cbResult = NoResult,
              !.obs.cbIn = "none", !.obs.cbTx = "None", !.obs.cbRx = "None",
              !.obs.finRes = NoResult, !.obs.finStop = FALSE,
              !.obs.fifo = FALSE, !.obs.log = << >>]

\* ---------------------------------------------------------------- helpers
\* the callback called through as_ref() in place of take(): it stays stored
call_callback_kept(m, res) ==
    IF Halted(m) \/ m.drv.callback = "None" THEN m
    ELSE Log([m EXCEPT !.obs.cbCount = @ + 1,
                       !.obs.cbResult = res,
                       !.obs.cbIn = m.obs.path,
                       !.obs.cbTx = m.drv.tx_transfer,
                       !.obs.cbRx = m.drv.rx_transfer], "CB")

\* fn call_callback_once: take() the callback and call it
call_callback_once(m, res) ==
    IF Halted(m) \/ m.drv.callback = "None" THEN m
    ELSE Log([m EXCEPT !.drv.callback = "None",
                       !.obs.cbCount = @ + 1,
                       !.obs.cbResult = res,
                       !.obs.cbIn = m.obs.path,
                       !.obs.cbTx = m.drv.tx_transfer,
                       !.obs.cbRx = m.drv.rx_transfer], "CB")

Panic(m) == [m EXCEPT !.obs.halt = "panic"]

\* a failed assert! of create_*_transfer or destroy_*_transfer
FailedAssertion(m) == [m EXCEPT !.obs.halt = "assert"]

create_tx_transfer(m) ==
    IF Halted(m) THEN m
    ELSE IF ~(m.drv.tx /\ m.drv.tx_stream) THEN FailedAssertion(m)
    ELSE [m EXCEPT !.drv.tx = FALSE, !.drv.tx_stream = FALSE,
                   !.drv.tx_transfer = "Created"]

\* the stream released by the transfer is not put back into tx_stream
destroy_tx_transfer_stream_lost(m) ==
    IF Halted(m) THEN m
    ELSE IF m.drv.tx_transfer = "None" THEN FailedAssertion(m)
    ELSE [m EXCEPT !.drv.tx = TRUE,
                   !.drv.tx_transfer = "None", !.dma.tx = {}]

\* release() disables the stream and clears its interrupt flags
destroy_tx_transfer(m) ==
    IF Halted(m) THEN m
    ELSE IF m.drv.tx_transfer = "None" THEN FailedAssertion(m)
    ELSE [m EXCEPT !.drv.tx = TRUE, !.drv.tx_stream = TRUE,
                   !.drv.tx_transfer = "None", !.dma.tx = {}]

create_rx_transfer(m) ==
    IF Halted(m) THEN m
    ELSE IF ~(m.drv.rx /\ m.drv.rx_stream) THEN FailedAssertion(m)
    ELSE [m EXCEPT !.drv.rx = FALSE, !.drv.rx_stream = FALSE,
                   !.drv.rx_transfer = "Created"]

destroy_rx_transfer(m) ==
    IF Halted(m) THEN m
    ELSE IF m.drv.rx_transfer = "None" THEN FailedAssertion(m)
    ELSE [m EXCEPT !.drv.rx = TRUE, !.drv.rx_stream = TRUE,
                   !.drv.rx_transfer = "None", !.dma.rx = {}]

\* start() called on every transfer object that exists, not on Tx alone
start_tx_transfer_and_rx(m) ==
    IF Halted(m) THEN m
    ELSE IF m.drv.tx_transfer = "None" THEN Panic(m)
    ELSE LET m1 == Log([m EXCEPT !.drv.tx_transfer = "Started"], "TX_START")
         IN  IF m1.drv.rx_transfer = "None" THEN m1
             ELSE Log([m1 EXCEPT !.drv.rx_transfer = "Started"], "RX_START")

\* self.tx_transfer.as_mut().unwrap().start(|_| {})
start_tx_transfer(m) ==
    IF Halted(m) THEN m
    ELSE IF m.drv.tx_transfer = "None" THEN Panic(m)
    ELSE Log([m EXCEPT !.drv.tx_transfer = "Started"], "TX_START")

\* self.rx_transfer.as_mut().unwrap().start(|_| {})
start_rx_transfer(m) ==
    IF Halted(m) THEN m
    ELSE IF m.drv.rx_transfer = "None" THEN Panic(m)
    ELSE Log([m EXCEPT !.drv.rx_transfer = "Started"], "RX_START")

busy(m) == m.i2c.busy

enable_dma_requests(m) ==
    IF Halted(m) THEN m ELSE Log([m EXCEPT !.i2c.dmaen = TRUE], "DMAEN")

\* DMAEN left set
disable_dma_requests_forgotten(m) == m

disable_dma_requests(m) ==
    IF Halted(m) THEN m ELSE [m EXCEPT !.i2c.dmaen = FALSE]

enable_error_interrupt_generation(m) ==
    IF Halted(m) THEN m ELSE Log([m EXCEPT !.i2c.iterren = TRUE], "ITERREN")

disable_error_interrupt_generation(m) ==
    IF Halted(m) THEN m ELSE [m EXCEPT !.i2c.iterren = FALSE]

\* the bus raises an error flag in SR1 while the driver polls
BusRaises(m, ev) ==
    IF Halted(m) \/ ev = "none" THEN m
    ELSE [m EXCEPT !.i2c.sr1 = @ \cup {ev}]

\* hal_i2c.check_and_clear_error_flags(): the first error flag set in SR1
\* is cleared and returned as an error
check_and_clear_error_flags(m) ==
    IF Halted(m) THEN m
    ELSE IF "AF" \in m.i2c.sr1
        THEN [m EXCEPT !.i2c.sr1 = @ \ {"AF"}, !.res = NackUnknown]
    ELSE IF "BERR" \in m.i2c.sr1
        THEN [m EXCEPT !.i2c.sr1 = @ \ {"BERR"}, !.res = BusFault]
    ELSE [m EXCEPT !.res = "Ok"]

\* super::Error::nack_addr
nack_addr(e) == IF e = NackUnknown THEN NackAddress ELSE e

send_stop(m) ==
    IF Halted(m) THEN m ELSE Log([m EXCEPT !.i2c.stop = TRUE], "STOP")

\* fn send_start: ev is what the bus does while SB is awaited
send_start(m, read, ev) ==
    LET m1 == IF Halted(m) THEN m
              ELSE Log([m EXCEPT !.i2c.start = TRUE], "START")
        m2 == IF Halted(m1) \/ ~read THEN m1
              ELSE Log([m1 EXCEPT !.i2c.ack = TRUE], "ACK1")
        m3 == check_and_clear_error_flags(BusRaises(m2, ev))
    IN  IF Halted(m3) \/ m3.res # "Ok" THEN m3
        ELSE Log([m3 EXCEPT !.i2c.start = FALSE, !.i2c.busy = TRUE], "SB")

\* send_address without `.map_err(super::Error::nack_addr)`
send_address_unmapped(m, addr, read, ev) ==
    LET to_send_addr == (addr * 2) + (IF read THEN 1 ELSE 0)
        m1 == IF Halted(m) THEN m
              ELSE Log(m, IF to_send_addr % 2 = 1 THEN "DR_ADDR_R"
                                                  ELSE "DR_ADDR_W")
        m2 == check_and_clear_error_flags(BusRaises(m1, ev))
    IN  IF Halted(m2) \/ m2.res # "Ok" THEN m2
        ELSE Log(m2, "ADDR")

\* fn send_address: ev is what the bus does while ADDR is awaited; of the
\* byte written to DR the history keeps the direction bit
send_address(m, addr, read, ev) ==
    LET to_send_addr == (addr * 2) + (IF read THEN 1 ELSE 0)
        m1 == IF Halted(m) THEN m
              ELSE Log(m, IF to_send_addr % 2 = 1 THEN "DR_ADDR_R"
                                                  ELSE "DR_ADDR_W")
        m2 == check_and_clear_error_flags(BusRaises(m1, ev))
    IN  IF Halted(m2) THEN m2
        ELSE IF m2.res # "Ok" THEN [m2 EXCEPT !.res = nack_addr(m2.res)]
        ELSE Log(m2, "ADDR")

\* prepare_write without send_address: ADDR is not awaited
prepare_write_without_address(m, addr, evS, evA) ==
    LET m1 == send_start(m, FALSE, evS)
    IN  IF Halted(m1) \/ m1.res # "Ok" THEN m1
        ELSE [enable_error_interrupt_generation(Log(m1, "ADDR_CLR"))
                EXCEPT !.res = "Ok"]

\* fn prepare_write
prepare_write(m, addr, evS, evA) ==
    LET m1 == send_start(m, FALSE, evS)
        m2 == send_address(m1, addr, FALSE, evA)
    IN  IF Halted(m1) \/ m1.res # "Ok" THEN m1
        ELSE IF Halted(m2) \/ m2.res # "Ok" THEN m2
        ELSE [enable_error_interrupt_generation(Log(m2, "ADDR_CLR"))
                EXCEPT !.res = "Ok"]

\* the comparison of prepare_read off by one
small_read_off_by_one(buf_len) == buf_len < 1

\* `if buf_len <= 1` of prepare_read: ACK=0 is needed before ADDR is cleared
small_read(buf_len) == buf_len <= 1

\* fn prepare_read
prepare_read(m, addr, buf_len, evS, evA) ==
    LET m1 == send_start(m, TRUE, evS)
        m2 == send_address(m1, addr, TRUE, evA)
        m3 == IF small_read(buf_len)
                THEN Log([m2 EXCEPT !.i2c.ack = FALSE], "ACK0")
                ELSE m2
    IN  IF Halted(m1) \/ m1.res # "Ok" THEN m1
        ELSE IF Halted(m2) \/ m2.res # "Ok" THEN m2
        ELSE [enable_error_interrupt_generation(Log(m3, "ADDR_CLR"))
                EXCEPT !.res = "Ok"]

\* STOP forced for every error, not for NoAcknowledge alone
is_no_acknowledge_any_error(result) == result.tag # "Ok"

\* `if let Err(Error::I2CError(super::Error::NoAcknowledge(_))) = &result`
is_no_acknowledge(result) ==
    result.tag = "I2CError" /\ IsNoAcknowledge(result.err)

\* fn finish_transfer_with_result
finish_transfer_with_result(m, result) ==
    LET m0 == IF Halted(m) THEN m ELSE Log(m, "FINISH")
        m1 == disable_error_interrupt_generation(disable_dma_requests(m0))
        m2 == IF is_no_acknowledge(result) THEN send_stop(m1) ELSE m1
        m3 == call_callback_once(m2, result)
        m4 == IF m3.drv.tx_transfer # "None" THEN destroy_tx_transfer(m3)
                                             ELSE m3
        m5 == IF m4.drv.rx_transfer # "None" THEN destroy_rx_transfer(m4)
                                             ELSE m4
    IN  IF Halted(m) THEN m
        ELSE [m5 EXCEPT !.obs.finRes = result,
                        !.obs.finStop = (m2.obs.log # m1.obs.log)]

\* `while self.hal_i2c.i2c.sr1.read().btf().bit_is_clear() {}`: ev is what
\* the bus does with the last byte.  The peripheral does not set BTF after
\* a NACK (AF), and then the loop never ends; a bus error leaves the
\* transmission as it is.
wait_for_btf(m, ev) ==
    LET m1 == BusRaises(m, ev)
    IN  IF Halted(m1) THEN m1
        ELSE IF "AF" \in m1.i2c.sr1 THEN [m1 EXCEPT !.obs.halt = "hang"]
        ELSE Log(m1, "BTF")

Path(m, p) == IF Halted(m) THEN m ELSE [m EXCEPT !.obs.path = p]

\* the pending Rx transfer overlooked at Tx transfer-complete
have_read_after_overlooked(m) == FALSE

\* `let have_read_after = self.rx_transfer.is_some();`
have_read_after(m) == m.drv.rx_transfer # "None"

\* every interrupt flag of the stream cleared along with the FIFO error
clear_all_interrupts(flags) == {}

\* tx_t.clear_fifo_error_interrupt() / rx_t.clear_fifo_error_interrupt()
clear_fifo_error_interrupt(flags) == flags \ {"FE"}

\* fn handle_dma_interrupt, the branch for an existing Tx transfer
handle_tx(m, evB, evS, evA) ==
    IF "FE" \in m.dma.tx THEN
        Path([m EXCEPT !.dma.tx = clear_fifo_error_interrupt(@),
                       !.obs.fifo = TRUE],
             "tx_fifo_error")
    ELSE IF "TE" \in m.dma.tx THEN
        finish_transfer_with_result(
            Path([m EXCEPT !.dma.tx = @ \ {"TE"}], "tx_transfer_error"),
            TransferError)
    ELSE IF "TC" \in m.dma.tx THEN
        LET m1 == Log(Path([m EXCEPT !.dma.tx = @ \ {"TC"}],
                           "tx_transfer_complete"), "TX_TC")
            read_after == have_read_after(m1)
            m2 == destroy_tx_transfer(m1)
            m3 == IF ~read_after
                    THEN finish_transfer_with_result(m2, CbOk) ELSE m2
            m4 == wait_for_btf(m3, evB)
            m5 == prepare_read(m4, m4.drv.address, m4.drv.rx_len, evS, evA)
            m6 == IF ~Halted(m5) /\ m5.res # "Ok"
                    THEN finish_transfer_with_result(m5, I2CError(m5.res))
                    ELSE m5
        IN  IF read_after THEN start_rx_transfer(m6)
                               ELSE send_stop(m4)
    ELSE Path(m, "tx_no_flag")

\* the Rx branch with transfer-complete tested before transfer-error
handle_rx_complete_first(m) ==
    IF "FE" \in m.dma.rx THEN
        Path([m EXCEPT !.dma.rx = clear_fifo_error_interrupt(@),
                       !.obs.fifo = TRUE],
             "rx_fifo_error")
    ELSE IF "TC" \in m.dma.rx THEN
        LET m1 == Log(Path([m EXCEPT !.dma.rx = @ \ {"TC"}],
                           "rx_transfer_complete"), "RX_TC")
            m2 == finish_transfer_with_result(m1, CbOk)
            m3 == IF Halted(m2) THEN m2
                  ELSE Log([m2 EXCEPT !.i2c.ack = FALSE], "ACK0")
        IN  send_stop(m3)
    ELSE IF "TE" \in m.dma.rx THEN
        finish_transfer_with_result(
            Path([m EXCEPT !.dma.rx = @ \ {"TE"}], "rx_transfer_error"),
            TransferError)
    ELSE Path(m, "rx_no_flag")

\* fn handle_dma_interrupt, the branch for an existing Rx transfer
handle_rx(m) ==
    IF "FE" \in m.dma.rx THEN
        Path([m EXCEPT !.dma.rx = clear_fifo_error_interrupt(@),
                       !.obs.fifo = TRUE],
             "rx_fifo_error")
    ELSE IF "TE" \in m.dma.rx THEN
        finish_transfer_with_result(
            Path([m EXCEPT !.dma.rx = @ \ {"TE"}], "rx_transfer_error"),
            TransferError)
    ELSE IF "TC" \in m.dma.rx THEN
        LET m1 == Log(Path([m EXCEPT !.dma.rx = @ \ {"TC"}],
                           "rx_transfer_complete"), "RX_TC")
            m2 == finish_transfer_with_result(m1, CbOk)
            m3 == IF Halted(m2) THEN m2
                  ELSE Log([m2 EXCEPT !.i2c.ack = FALSE], "ACK0")
        IN  send_stop(m3)
    ELSE Path(m, "rx_no_flag")

\* the `return` that ends the Tx block left out: with no Tx flag set the
\* handler goes on to the Rx transfer
handle_dma_interrupt_falls_through(m, evB, evS, evA) ==
    IF m.drv.tx_transfer # "None" /\ m.dma.tx # {}
        THEN handle_tx(m, evB, evS, evA)
    ELSE IF m.drv.rx_transfer # "None" THEN handle_rx(m)
    ELSE Path(m, "idle")

\* fn handle_dma_interrupt
handle_dma_interrupt(m, evB, evS, evA) ==
    IF m.drv.tx_transfer # "None" THEN handle_tx(m, evB, evS, evA)
    ELSE IF m.drv.rx_transfer # "None" THEN handle_rx(m)
    ELSE Path(m, "idle")

\* fn handle_error_interrupt
handle_error_interrupt(m) ==
    LET m1 == check_and_clear_error_flags(m)
    IN  IF m1.res # "Ok"
            THEN finish_transfer_with_result(Path(m1, "error"),
                                             I2CError(m1.res))
            ELSE Path(m1, "no_error")

\* busy_res without the check of the BUSY bit
busy_res_unchecked(m) == "Ok"

\* fn busy_res
busy_res(m) == IF busy(m) THEN "WouldBlock" ELSE "Ok"

\* fn write_dma (the bytes of the buffer do not influence the control flow)
write_dma(m, addr, callback, evS, evA) ==
    IF busy_res(m) # "Ok" THEN Return(m, WouldBlock)
    ELSE
        LET m0 == Path(NewTransaction(m, "write", 0, callback), "prepare")
            m1 == create_tx_transfer(enable_dma_requests(m0))
            m2 == IF Halted(m1) THEN m1
                  ELSE [m1 EXCEPT !.drv.callback = callback]
            m3 == prepare_write(m2, addr, evS, evA)
        IN  IF Halted(m3) THEN m3
            ELSE IF m3.res # "Ok"
                THEN Return(finish_transfer_with_result(m3, I2CError(m3.res)),
                            Other(m3.res))
            ELSE Return(start_tx_transfer(m3), NbOk)

\* fn read_dma
read_dma(m, addr, buf_len, callback, evS, evA) ==
    IF busy_res(m) # "Ok" THEN Return(m, WouldBlock)
    ELSE
        LET m0 == Path(NewTransaction(m, "read", buf_len, callback), "prepare")
            m1 == create_rx_transfer(enable_dma_requests(m0))
            m2 == IF Halted(m1) THEN m1
                  ELSE [m1 EXCEPT !.drv.callback = callback]
            m3 == prepare_read(m2, addr, buf_len, evS, evA)
        IN  IF Halted(m3) THEN m3
            ELSE IF m3.res # "Ok"
                THEN Return(finish_transfer_with_result(m3, I2CError(m3.res)),
                            Other(m3.res))
            ELSE Return(start_rx_transfer(m3), NbOk)

\* fn write_read_dma
write_read_dma(m, addr, buf_len, callback, evS, evA) ==
    IF busy_res(m) # "Ok" THEN Return(m, WouldBlock)
    ELSE
        LET m0 == Path(NewTransaction(m, "write_read", buf_len, callback), "prepare")
            m1 == [m0 EXCEPT !.drv.address = addr, !.drv.rx_len = buf_len]
            m2 == create_rx_transfer(create_tx_transfer(
                                         enable_dma_requests(m1)))
            m3 == IF Halted(m2) THEN m2
                  ELSE [m2 EXCEPT !.drv.callback = callback]
            m4 == prepare_write(m3, addr, evS, evA)
        IN  IF Halted(m4) THEN m4
            ELSE IF m4.res # "Ok"
                THEN Return(finish_transfer_with_result(m4, I2CError(m4.res)),
                            Other(m4.res))
            ELSE Return(start_tx_transfer(m4), NbOk)

\* hal_i2c.write / read / write_read: the blocking driver runs the whole
\* transaction in polled mode.  `outcome` is what the bus lets it return.
\* With "Ok" it has sent STOP and waited for it, so the bus is free again;
\* with an error it has cleared the error flag and returns at once, without
\* STOP: the master still holds the bus.
hal_i2c_blocking(m, name, outcome) ==
    IF Halted(m) THEN m
    ELSE LET m1 == Log(m, name)
         IN  IF outcome = "Ok" THEN [m1 EXCEPT !.res = "Ok"]
             ELSE [m1 EXCEPT !.i2c.busy = TRUE, !.res = outcome]

\* the NoAcknowledge arm of the match left out: no STOP from the wrapper
match_hal_result_without_stop(m) ==
    IF m.res = "Ok" THEN Return(m, NbOk) ELSE Return(m, Other(m.res))

\* the `match` of read, write_read and write on the result of the blocking
\* driver
match_hal_result(m) ==
    IF m.res = "Ok" THEN Return(m, NbOk)
    ELSE IF IsNoAcknowledge(m.res) THEN Return(send_stop(m), Other(m.res))
    ELSE Return(m, Other(m.res))

\* fn read (blocking)
read(m, addr, outcome) ==
    IF busy_res(m) # "Ok" THEN Return(m, WouldBlock)
    ELSE match_hal_result(
             hal_i2c_blocking(NewTransaction(m, "blocking", 0, "None"),
                              "HAL_READ", outcome))

\* fn write_read (blocking)
write_read(m, addr, outcome) ==
    IF busy_res(m) # "Ok" THEN Return(m, WouldBlock)
    ELSE match_hal_result(
             hal_i2c_blocking(NewTransaction(m, "blocking", 0, "None"),
                              "HAL_WRITE_READ", outcome))

\* fn write (blocking)
write(m, addr, outcome) ==
    IF busy_res(m) # "Ok" THEN Return(m, WouldBlock)
    ELSE match_hal_result(
             hal_i2c_blocking(NewTransaction(m, "blocking", 0, "None"),
                              "HAL_WRITE", outcome))

\* ---------------------------------------------------------------- actions
Running == obs.halt = "no"

\* The bus can only do something to a call that polls it: a call rejected
\* by busy_res polls nothing, the address is sent only when START went
\* through, the DMA handler polls only on the Tx transfer-complete path, and
\* sends the restart only with an Rx transfer pending.
Polled(cond, events) == IF cond THEN events ELSE {"none"}

\* A call rejected by busy_res returns before it looks at its arguments: one
\* value of each stands for all of them.
Args(values) == IF i2c.busy THEN {CHOOSE v \in values : TRUE} ELSE values

\* A STOP requested on an idle bus takes effect at once: the peripheral has
\* consumed it before the program makes its next call.
StopSettled == i2c.stop => i2c.busy

CallEnabled == Running /\ StopSettled

WriteDma ==
    /\ CallEnabled
    /\ \E addr \in Args(Addrs), cb \in Args(Callbacks),
          evS \in Polled(~i2c.busy, StartEvents) :
       \E evA \in Polled(~i2c.busy /\ evS = "none", BusEvents) :
          Commit(write_dma(Enter(M, "write_dma"), addr, cb, evS, evA))

ReadDma ==
    /\ CallEnabled
    /\ \E addr \in Args(Addrs), len \in Args(Lens), cb \in Args(Callbacks),
          evS \in Polled(~i2c.busy, StartEvents) :
       \E evA \in Polled(~i2c.busy /\ evS = "none", BusEvents) :
          Commit(read_dma(Enter(M, "read_dma"), addr, len, cb, evS, evA))

WriteReadDma ==
    /\ CallEnabled
    /\ \E addr \in Args(Addrs), len \in Args(Lens), cb \in Args(Callbacks),
          evS \in Polled(~i2c.busy, StartEvents) :
       \E evA \in Polled(~i2c.busy /\ evS = "none", BusEvents) :
          Commit(write_read_dma(Enter(M, "write_read_dma"),
                                addr, len, cb, evS, evA))

\* what the blocking driver can return
HalOutcomes == {"Ok", NackAddress, NackData, BusFault}

BlockingRead ==
    /\ CallEnabled
    /\ \E addr \in Args(Addrs), outcome \in Polled(~i2c.busy, HalOutcomes) :
          Commit(read(Enter(M, "read"), addr, outcome))

BlockingWriteRead ==
    /\ CallEnabled
    /\ \E addr \in Args(Addrs), outcome \in Polled(~i2c.busy, HalOutcomes) :
          Commit(write_read(Enter(M, "write_read"), addr, outcome))

BlockingWrite ==
    /\ CallEnabled
    /\ \E addr \in Args(Addrs), outcome \in Polled(~i2c.busy, HalOutcomes) :
          Commit(write(Enter(M, "write"), addr, outcome))

HandleDmaInterrupt ==
    /\ Running
    /\ LET tc == drv.tx_transfer # "None" /\ "TC" \in dma.tx
           restart == tc /\ drv.rx_transfer # "None"
       IN  \E evB \in Polled(tc, BusEvents),
              evS \in Polled(restart, StartEvents) :
           \E evA \in Polled(restart /\ evS = "none", BusEvents) :
              Commit(handle_dma_interrupt(Enter(M, "handle_dma_interrupt"),
                                          evB, evS, evA))

HandleErrorInterrupt ==
    /\ Running
    /\ Commit(handle_error_interrupt(Enter(M, "handle_error_interrupt")))

\* the Tx stream, enabled by start(), raises one of its interrupt flags
TxStreamRaises ==
    /\ Running
    /\ drv.tx_transfer = "Started"
    /\ \E f \in {"FE", "TE", "TC"} :
          /\ f \notin dma.tx
          /\ Commit([Enter(M, "hardware") EXCEPT !.dma.tx = @ \cup {f}])

\* the Rx stream, enabled by start(), raises one of its interrupt flags
RxStreamRaises ==
    /\ Running
    /\ drv.rx_transfer = "Started"
    /\ \E f \in {"FE", "TE", "TC"} :
          /\ f \notin dma.rx
          /\ Commit([Enter(M, "hardware") EXCEPT !.dma.rx = @ \cup {f}])

\* the bus reports an error while a DMA transfer is running
BusError ==
    /\ Running
    /\ i2c.busy
    /\ "Started" \in {drv.tx_transfer, drv.rx_transfer}
    /\ \E e \in {"AF", "BERR"} :
          /\ e \notin i2c.sr1
          /\ Commit(BusRaises(Enter(M, "hardware"), e))

\* the peripheral puts the requested STOP condition on the bus: STOP is
\* cleared by hardware and BUSY falls
StopCondition ==
    /\ Running
    /\ i2c.stop
    /\ Commit([Enter(M, "hardware") EXCEPT !.i2c.stop = FALSE,
                                           !.i2c.busy = FALSE])

Next ==
    \/ WriteDma
    \/ ReadDma
    \/ WriteReadDma
    \/ BlockingRead
    \/ BlockingWriteRead
    \/ BlockingWrite
    \/ HandleDmaInterrupt
    \/ HandleErrorInterrupt
    \/ TxStreamRaises
    \/ RxStreamRaises
    \/ BusError
    \/ StopCondition

Spec == Init /\ [][Next]_vars

\* handle_dma_interrupt as a function of the state at its entry: a running
\* transaction whose Tx transfer exists (the Rx transfer of a write-then-read
\* created beside it or not), with every combination of the interrupt flags
\* of the two streams, flags left on the Rx stream included.
StreamFlags == {"FE", "TE", "TC"}

InitTxPending ==
    /\ \E cb \in Callbacks, len \in Lens, rx_t \in {"None", "Created"} :
          drv = [use_dma EXCEPT !.callback = cb, !.rx_len = len,
                                !.tx = FALSE, !.tx_stream = FALSE,
                                !.tx_transfer = "Started",
                                !.rx = (rx_t = "None"),
                                !.rx_stream = (rx_t = "None"),
                                !.rx_transfer = rx_t]
    /\ \E a \in BOOLEAN :
          i2c = [InitI2c EXCEPT !.busy = TRUE, !.dmaen = TRUE,
                                !.iterren = TRUE, !.ack = a]
    /\ dma \in [tx : SUBSET StreamFlags, rx : SUBSET StreamFlags]
    /\ obs = InitObs

NextTxPending == HandleDmaInterrupt

SpecTxPending == InitTxPending /\ [][NextTxPending]_vars

TypeOK ==
    /\ drv.callback \in Callbacks
    /\ drv.address \in Addrs
    /\ drv.rx_len \in Lens
    /\ drv.tx_transfer \in {"None", "Created", "Started"}
    /\ drv.rx_transfer \in {"None", "Created", "Started"}
    /\ i2c.sr1 \subseteq {"AF", "BERR"}
    /\ dma.tx \subseteq {"FE", "TE", "TC"}
    /\ dma.rx \subseteq {"FE", "TE", "TC"}
    /\ obs.halt \in {"no", "panic", "assert", "hang"}

\* ---------------------------------------------------------------- claims
AsyncOps == {"write_dma", "read_dma", "write_read_dma"}

NoTransfer == drv.tx_transfer = "None" /\ drv.rx_transfer = "None"

SlotsIdle ==
    /\ NoTransfer
    /\ drv.tx /\ drv.tx_stream /\ drv.rx /\ drv.rx_stream

Positions(ev) == { i \in DOMAIN obs.log : obs.log[i] = ev }

FailureResult(r) == r.tag \in {"I2CError", "TransferError"}

\* C1: a callback supplied to an accepted transaction is invoked exactly
\* once: never twice, and once the transaction can go no further (no
\* transfer object is left, or the program has stopped in a handler) it has
\* been invoked.
C1_CallbackExactlyOnce ==
    obs.cbSupplied =>
        /\ obs.cbCount <= 1
        /\ (NoTransfer \/ obs.halt # "no") => obs.cbCount = 1

\* C2: an async call made while busy() is true returns WouldBlock and leaves
\* the driver struct, the peripheral bits and the DMA streams as they were.
C2_BusyCallChangesNothing ==
    [][ (i2c.busy /\ obs'.op \in AsyncOps) =>
            /\ obs'.ret = WouldBlock
            /\ drv' = drv
            /\ i2c' = i2c
            /\ dma' = dma ]_vars

C2_Witness ==
    /\ obs.op = "write_read_dma"
    /\ obs.ret = WouldBlock
    /\ drv.tx_transfer = "Started"
    /\ drv.callback = "Some"

\* C3: whenever the callback runs, no transfer object of the transaction
\* exists any more.
C3_SlotsIdleWhenCallbackRuns ==
    obs.cbCount > 0 => (obs.cbTx = "None" /\ obs.cbRx = "None")

\* C4: in a transaction in which the driver requests STOP, the callback is
\* invoked only after the STOP request.
C4_CallbackAfterStop ==
    \A c \in Positions("CB") :
        Positions("STOP") # {} => \E s \in Positions("STOP") : s < c

\* C5: after a finalization with an error the driver is ready for a new
\* operation: the program runs, both slots are idle, the callback is
\* consumed, and the bus is free or about to be freed by a requested STOP.
C5_ReadyAfterFailure ==
    FailureResult(obs.finRes) =>
        /\ obs.halt = "no"
        /\ SlotsIdle
        /\ drv.callback = "None"
        /\ i2c.busy => i2c.stop

\* C6: in a write_read_dma transaction the Rx transfer exists, unstarted,
\* from the call on; it is started only after the handler has seen the Tx
\* transfer-complete flag, and never after a finalization.
C6_RxStartsAfterTxComplete ==
    obs.kind = "write_read" =>
        /\ \A r \in Positions("RX_START") :
              /\ \E c \in Positions("TX_TC") : c < r
              /\ \A f \in Positions("FINISH") : r < f
        /\ (Positions("TX_START") # {} /\ Positions("TX_TC") = {}
              /\ Positions("FINISH") = {}) => drv.rx_transfer = "Created"
        /\ drv.rx_transfer = "Started" => Positions("RX_START") # {}

C6_Witness ==
    /\ obs.kind = "write_read"
    /\ drv.rx_transfer = "Started"
    /\ Positions("RX_START") # {}

\* C7: a write_read_dma transaction whose callback gets success gets it
\* exactly once, in the handler invocation that handles the Rx
\* transfer-complete flag; handling that flag ends the transaction with
\* success.
C7_SuccessAtRxComplete ==
    (obs.kind = "write_read" /\ obs.cbSupplied) =>
        /\ obs.cbResult = CbOk =>
              (obs.cbCount = 1 /\ obs.cbIn = "rx_transfer_complete")
        /\ Positions("RX_TC") # {} =>
              (obs.cbCount = 1 /\ obs.cbResult = CbOk)
        /\ (Positions("TX_TC") # {} /\ Positions("RX_TC") = {}) =>
              obs.cbResult # CbOk

C7_Witness ==
    /\ obs.kind = "write_read"
    /\ obs.cbSupplied
    /\ Positions("RX_TC") # {}
    /\ obs.cbResult = CbOk

\* C8: a finalization requests STOP exactly when its result is a
\* NoAcknowledge error; with success, another I2C error or TransferError it
\* requests none.
C8_StopOnlyOnNack ==
    obs.finRes # NoResult =>
        (obs.finStop <=>
            obs.finRes \in { [tag |-> "I2CError", err |-> e] :
                               e \in {NackUnknown, NackAddress, NackData} })

C8_Witness ==
    /\ obs.finRes = [tag |-> "I2CError", err |-> NackAddress]
    /\ obs.finStop
    /\ i2c.stop

\* C9: in prepare_read, with a receive length of 1 the ACK bit is cleared
\* between the acknowledged address and the clearing of ADDR; with a length
\* above 1 ADDR is cleared right after the address and ACK is still set.
ReadAddrCleared ==
    { j \in Positions("ADDR_CLR") :
        \E i \in Positions("DR_ADDR_R") :
            i < j /\ \A k \in (i + 1)..(j - 1) : obs.log[k] \in {"ADDR", "ACK0"} }

AckSetAt(j) ==
    \E a \in Positions("ACK1") :
        a < j /\ \A z \in Positions("ACK0") : z < a \/ z > j

C9_AckTimingOfSmallRead ==
    \A j \in ReadAddrCleared :
        /\ obs.len = 1 => (obs.log[j - 1] = "ACK0" /\ obs.log[j - 2] = "ADDR")
        /\ obs.len > 1 => (obs.log[j - 1] = "ADDR" /\ AckSetAt(j))

C9_Witness ==
    /\ obs.len = 1
    /\ obs.kind = "write_read"
    /\ ReadAddrCleared # {}

\* C10: an async call that returns a preparation error has invoked the
\* supplied callback once, during the call, with the same error, and leaves
\* both slots idle, no callback stored, and DMA requests and error
\* interrupts disabled.
C10_PreparationFailure ==
    (obs.op \in AsyncOps /\ obs.ret.tag = "Other") =>
        /\ obs.cbSupplied =>
              /\ obs.cbCount = 1
              /\ obs.cbResult = [tag |-> "I2CError", err |-> obs.ret.err]
              /\ obs.cbIn = "prepare"
        /\ SlotsIdle
        /\ drv.callback = "None"
        /\ ~i2c.dmaen
        /\ ~i2c.iterren

C10_Witness ==
    /\ obs.op = "write_read_dma"
    /\ obs.ret = [tag |-> "Other", err |-> NackAddress]
    /\ obs.cbSupplied
    /\ obs.cbCount = 1

\* C11: read_dma with a one-byte buffer whose address is not acknowledged:
\* by the time handle_error_interrupt has run, the supplied callback has been
\* called exactly once, with NoAcknowledge(Address), STOP has been requested
\* and both slots are idle.
AddressNackOfOneByteRead ==
    /\ obs.kind = "read"
    /\ obs.len = 1
    /\ Positions("DR_ADDR_R") # {}
    /\ Positions("ADDR") = {}
    /\ obs.finRes.tag = "I2CError"
    /\ IsNoAcknowledge(obs.finRes.err)

C11_AddressNackOfRead ==
    (obs.op = "handle_error_interrupt" /\ AddressNackOfOneByteRead) =>
        /\ obs.cbSupplied =>
              (obs.cbCount = 1 /\ obs.cbResult = I2CError(NackAddress))
        /\ ~obs.cbSupplied => obs.cbCount = 0
        /\ Positions("STOP") # {}
        /\ SlotsIdle

C11_Witness ==
    /\ obs.op = "handle_error_interrupt"
    /\ AddressNackOfOneByteRead
    /\ obs.cbSupplied
    /\ obs.cbCount = 1
    /\ Positions("STOP") # {}

\* C12: in a write_dma transaction in which the handler has handled a Tx
\* FIFO error, the invocation that handles Tx transfer-complete returns,
\* has invoked the supplied callback exactly once, with success, in that
\* invocation, and leaves the bus free: busy() is false once the requested
\* STOP has gone out.
C12_FifoErrorThenComplete ==
    ( /\ obs.kind = "write"
      /\ obs.fifo
      /\ obs.op = "handle_dma_interrupt"
      /\ obs.path = "tx_transfer_complete" ) =>
        /\ obs.halt = "no"
        /\ obs.cbSupplied =>
              /\ obs.cbCount = 1
              /\ obs.cbResult = CbOk
              /\ obs.cbIn = "tx_transfer_complete"
        /\ i2c.busy => i2c.stop

\* C13: in the write phase of an async transaction a NACK of a data byte
\* (AF raised after the Tx transfer was started) never ends in success for
\* the callback, and a finalization with the not-acknowledged error gives
\* the callback that error, once, with STOP requested.
C13_DataNackNeverSuccess ==
    ( /\ obs.kind \in {"write", "write_read"}
      /\ obs.cbSupplied
      /\ Positions("TX_START") # {}
      /\ Positions("RX_START") = {} ) =>
        /\ "AF" \in i2c.sr1 => obs.cbResult # CbOk
        /\ (obs.finRes.tag = "I2CError" /\ IsNoAcknowledge(obs.finRes.err)) =>
              (obs.cbCount = 1 /\ obs.cbResult = obs.finRes /\ obs.finStop)

\* C14: a blocking read, write_read or write called while busy() is true
\* returns WouldBlock and changes nothing in the driver, the peripheral or
\* the DMA streams; called on a free bus it hands the transaction to the
\* blocking driver and returns its result; the wrapper requests STOP, within
\* the call, exactly when that result is a not-acknowledged error.
BlockingOps == {"read", "write_read", "write"}

HalCalls == {"HAL_READ", "HAL_WRITE_READ", "HAL_WRITE"}

C14_BlockingFallback ==
    [][ obs'.op \in BlockingOps =>
          /\ i2c.busy =>
                /\ obs'.ret = WouldBlock
                /\ drv' = drv
                /\ i2c' = i2c
                /\ dma' = dma
          /\ ~i2c.busy =>
                /\ obs'.ret.tag \in {"Ok", "Other"}
                /\ Len(obs'.log) >= 1
                /\ obs'.log[1] \in HalCalls
                /\ drv' = drv
                /\ dma' = dma
                /\ (obs'.ret.tag = "Other" /\ IsNoAcknowledge(obs'.ret.err)) =>
                      (obs'.log[Len(obs'.log)] = "STOP" /\ i2c'.stop)
                /\ ~(obs'.ret.tag = "Other" /\ IsNoAcknowledge(obs'.ret.err)) =>
                      (obs'.log[Len(obs'.log)] # "STOP" /\ i2c'.stop = i2c.stop)
      ]_vars

C14_Witness ==
    /\ obs.op = "write_read"
    /\ obs.ret = Other(NackData)
    /\ obs.log = <<"HAL_WRITE_READ", "STOP">>
    /\ i2c.stop

\* C15: every invocation of handle_dma_interrupt returns: the poll for BTF
\* on the Tx transfer-complete path ends whatever the bus does with the
\* last byte.
C15_HandlerTerminates ==
    obs.op = "handle_dma_interrupt" => obs.halt # "hang"

\* C16: when prepare_read fails on the Tx transfer-complete path of a
\* write_read_dma transaction, the handler returns normally (no panic), the
\* supplied callback has been invoked once with that I2C error, the Rx
\* transfer was never started and both slots are idle.
C16_FailedRestartFinalizes ==
    ( /\ obs.op = "handle_dma_interrupt"
      /\ obs.kind = "write_read"
      /\ obs.path = "tx_transfer_complete"
      /\ obs.finRes.tag = "I2CError" ) =>
        /\ obs.halt = "no"
        /\ obs.cbSupplied => (obs.cbCount = 1 /\ obs.cbResult = obs.finRes)
        /\ Positions("RX_START") = {}
        /\ SlotsIdle

\* C17: each slot is either idle (endpoint and stream present, no transfer
\* object) or active (transfer object present, endpoint and stream taken);
\* while a transfer object exists busy() is true; no assert! of
\* create_tx_transfer, create_rx_transfer, destroy_tx_transfer or
\* destroy_rx_transfer fails.
TxSlotIdle == drv.tx_transfer = "None" /\ drv.tx /\ drv.tx_stream

TxSlotActive == drv.tx_transfer # "None" /\ ~drv.tx /\ ~drv.tx_stream

RxSlotIdle == drv.rx_transfer = "None" /\ drv.rx /\ drv.rx_stream

RxSlotActive == drv.rx_transfer # "None" /\ ~drv.rx /\ ~drv.rx_stream

TxFifoError == drv.tx_transfer # "None" /\ "FE" \in dma.tx

RxFifoError ==
    drv.tx_transfer = "None" /\ drv.rx_transfer # "None" /\ "FE" \in dma.rx

C18_FifoErrorOnlyCleared ==
    [][ (obs'.op = "handle_dma_interrupt" /\ (TxFifoError \/ RxFifoError)) =>
          /\ drv' = drv
          /\ i2c' = i2c
          /\ TxFifoError => (dma'.tx = dma.tx \ {"FE"} /\ dma'.rx = dma.rx)
          /\ RxFifoError => (dma'.rx = dma.rx \ {"FE"} /\ dma'.tx = dma.tx)
          /\ obs'.cbCount = obs.cbCount
          /\ obs'.log = obs.log
          /\ obs'.finRes = obs.finRes
          /\ obs'.halt = "no"
      ]_vars

C18_Witness ==
    /\ obs.op = "handle_dma_interrupt"
    /\ obs.path = "tx_fifo_error"
    /\ drv.tx_transfer = "Started"
    /\ drv.callback = "Some"
    /\ {"TE", "TC"} \subseteq dma.tx
    /\ obs.cbCount = 0

\* C19 (under SpecTxPending): an invocation of handle_dma_interrupt entered
\* while a Tx transfer exists takes one of the Tx paths only: the Rx flags
\* are not cleared as long as the Rx transfer lives, the Rx
\* transfer-complete path (success finalization, ACK clear, STOP) is not
\* taken, a pending Rx transfer never gets success in that invocation, and
\* with no Tx flag set nothing changes at all, whatever the Rx flags are.
TxPaths ==
    {"tx_fifo_error", "tx_transfer_error", "tx_transfer_complete", "tx_no_flag"}

C19_TxTakesPriority ==
    [][ (obs'.op = "handle_dma_interrupt" /\ drv.tx_transfer # "None") =>
          /\ obs'.path \in TxPaths
          /\ \A i \in DOMAIN obs'.log : obs'.log[i] # "RX_TC"
          /\ drv'.rx_transfer # "None" => dma'.rx = dma.rx
          /\ drv.rx_transfer # "None" =>
                ~(obs'.cbCount > obs.cbCount /\ obs'.cbResult = CbOk)
          /\ dma.tx = {} =>
                /\ drv' = drv
                /\ i2c' = i2c
                /\ dma' = dma
                /\ obs'.cbCount = obs.cbCount
                /\ obs'.log = obs.log
      ]_vars

C19_Witness ==
    /\ obs.op = "handle_dma_interrupt"
    /\ obs.path = "tx_no_flag"
    /\ drv.tx_transfer = "Started"
    /\ drv.rx_transfer = "Created"
    /\ dma.tx = {}
    /\ dma.rx = {"FE", "TE", "TC"}
    /\ drv.callback = "Some"

\* C20: an invocation of handle_dma_interrupt that finds the transfer-error
\* flag of the active transfer set, and no FIFO error, finalizes the
\* transaction with TransferError, transfer-complete pending or not: a
\* stored callback is invoked once with TransferError, every transfer object
\* is destroyed (the stream flags go with it), both slots are idle, and no
\* STOP is requested.
TxTransferError ==
    drv.tx_transfer # "None" /\ "TE" \in dma.tx /\ "FE" \notin dma.tx

RxTransferError ==
    /\ drv.tx_transfer = "None"
    /\ drv.rx_transfer # "None"
    /\ "TE" \in dma.rx
    /\ "FE" \notin dma.rx

C20_TransferErrorFinalizes ==
    [][ ( /\ obs'.op = "handle_dma_interrupt"
          /\ TxTransferError \/ RxTransferError ) =>
          /\ obs'.finRes = TransferError
          /\ drv.callback = "Some" =>
                (obs'.cbCount = obs.cbCount + 1 /\ obs'.cbResult = TransferError)
          /\ drv.callback = "None" => obs'.cbCount = obs.cbCount
          /\ drv'.callback = "None"
          /\ SlotsIdle'
          /\ dma' = InitDma
          /\ i2c'.stop = i2c.stop
          /\ ~obs'.finStop
          /\ obs'.halt = "no"
      ]_vars

C20_Witness ==
    /\ obs.op = "handle_dma_interrupt"
    /\ obs.path = "tx_transfer_error"
    /\ obs.kind = "write_read"
    /\ obs.cbResult = TransferError
    /\ obs.cbRx = "Created"
    /\ SlotsIdle
    /\ ~i2c.stop

\* C21: in an async transaction a DMA transfer is started only after DMA
\* requests were enabled, START went out, and the address of its phase was
\* acknowledged and ADDR cleared.  A transaction that ended with success
\* shows the whole order: DMAEN first, START, address, data by DMA, for a
\* write-then-read a second START with the read address and the Rx
\* transfer, no STOP before it, and one STOP, as the last event, once the
\* handler that ends the transaction has returned.
AsyncKinds == {"write", "read", "write_read"}

DmaStarts == Positions("TX_START") \cup Positions("RX_START")

\* the START of the phase of s is followed by ADDR and ADDR_CLR before s
AddressedBefore(s) ==
    \E st \in Positions("START"), a \in Positions("ADDR"),
       c \in Positions("ADDR_CLR") :
        /\ st < a
        /\ a < c
        /\ c < s
        /\ \A q \in Positions("START") : q < s => q <= st

Successful == obs.kind \in AsyncKinds /\ obs.finRes = CbOk

C22_IdleDriverIsClean ==
    SlotsIdle =>
        /\ drv.callback = "None"
        /\ ~i2c.dmaen
        /\ ~i2c.iterren

C22_Witness ==
    /\ SlotsIdle
    /\ obs.cbSupplied
    /\ obs.cbCount = 1
    /\ obs.op = "handle_dma_interrupt"
    /\ obs.finRes = CbOk
    /\ drv.callback = "None"
    /\ ~i2c.dmaen

====
